---- MODULE Spec2Model ----
(***************************************************************************)
(* Lifecycle-hooks demo (HelloComponent hosted by AppComponent) and the    *)
(* component-level CounterService of the guide.                            *)
(*                                                                         *)
(* The hooks are the methods of hello.component.ts.  The host runtime that *)
(* calls them is modelled from the "Common Lifecycle Hooks" table of the   *)
(* guide (README.md:565-574): one change detection cycle of an instance is *)
(* binding update, ngOnChanges (when an input was set), ngOnInit (first    *)
(* cycle), ngDoCheck, ngAfterContentInit (first cycle),                    *)
(* ngAfterContentChecked, ngAfterViewInit (first cycle),                   *)
(* ngAfterViewChecked.                                                     *)
(***************************************************************************)
EXTENDS Integers, Sequences, FiniteSets, TLC

\* ---- bounds ----
MaxInstances == 2      \* HelloComponent instances a harness parent may create
MaxTrace == 16         \* trace length explored under a harness parent
MaxDemoTrace == 100    \* trace length explored under AppComponent
MaxCounters == 3       \* CounterComponent instances
MaxCount == 4          \* clicks per CounterComponent

Instances == 1..MaxInstances
Counters == 1..MaxCounters

\* Values a harness parent may bind to [name]; AppComponent binds "Angular".
BoundValues == {"", "Angular"}
NoChange == "NO_CHANGE"     \* no value has been bound yet
Undefined == "undefined"    \* previousValue of a first change

Roots == {"AppComponent", "Harness", "CounterApp"}

VARIABLES
  root,       \* which application is bootstrapped
  app,        \* AppComponent instance: [title]
  comp,       \* HelloComponent instances: i -> [name]
  status,     \* i -> "none" | "live" | "destroyed"
  pc,         \* i -> position of the runtime in the instance's cycle
  expr,       \* i -> value the parent's template currently binds to name
  lastBound,  \* i -> value last written through the binding, or NoChange
  changes,    \* i -> pending SimpleChanges (<<>> when there are none)
  initPhase,  \* i -> 0: ngOnInit to run, 1: ngAfterContentInit to run,
              \*      2: ngAfterViewInit to run, 3: init hooks completed
  cycleNo,    \* i -> number of cycles started on the instance
  running,    \* instance whose group of hooks is being run, 0 when none
  console,    \* the lines printed by console.log
  trace,      \* history: hook invocations and input writes, in order
  services,   \* CounterService instances: Seq of [count]
  counter,    \* CounterComponent c -> index of its service, 0 when not created
  clicks      \* history: c -> number of increment() calls made through c

vars == <<root, app, comp, status, pc, expr, lastBound, changes, initPhase,
          cycleNo, running, console, trace, services, counter, clicks>>

helloVars == <<comp, status, pc, expr, lastBound, changes, initPhase,
               cycleNo, running, console, trace>>
counterVars == <<services, counter, clicks>>

\* ---- AppComponent (app.component.ts) ----
AppTitle == "lifecycle-hooks-demo"
\* Variant: the template binds another constant.
AppTemplateName_Other == "World"

AppTemplateName == "Angular"
AppTemplateChildren == 1

\* ---- HelloComponent (hello.component.ts) ----
NewHello == [name |-> ""]

ngOnChanges(self, con, ch) ==
  [self |-> self, console |-> Append(con, <<"ngOnChanges → Input changed:", ch>>)]

ngOnInit(self, con) ==
  [self |-> self, console |-> Append(con, <<"ngOnInit → Component is ready!">>)]

ngDoCheck(self, con) ==
  [self |-> self, console |-> Append(con, <<"ngDoCheck → Change detection running">>)]

ngAfterContentInit(self, con) ==
  [self |-> self, console |-> Append(con, <<"ngAfterContentInit → Content projected">>)]

ngAfterContentChecked(self, con) ==
  [self |-> self, console |-> Append(con, <<"ngAfterContentChecked → Content checked">>)]

\* Variant: ngAfterViewInit prints the line of ngAfterViewChecked.
ngAfterViewInit_CopyPaste(self, con) ==
  [self |-> self, console |-> Append(con, <<"ngAfterViewChecked → View checked">>)]

ngAfterViewInit(self, con) ==
  [self |-> self, console |-> Append(con, <<"ngAfterViewInit → View initialized">>)]

\* Variant: ngAfterViewChecked writes the input it displays.
ngAfterViewChecked_SetsName(self, con) ==
  [self |-> [self EXCEPT !.name = "changed"],
   console |-> Append(con, <<"ngAfterViewChecked → View checked">>)]

ngAfterViewChecked(self, con) ==
  [self |-> self, console |-> Append(con, <<"ngAfterViewChecked → View checked">>)]

ngOnDestroy(self, con) ==
  [self |-> self, console |-> Append(con, <<"ngOnDestroy → Component is destroyed!">>)]

Hooks == {"ngOnChanges", "ngOnInit", "ngDoCheck", "ngAfterContentInit",
          "ngAfterContentChecked", "ngAfterViewInit", "ngAfterViewChecked",
          "ngOnDestroy"}

\* ---- CounterService / CounterComponent (README.md, component-level service) ----
NewCounterService == [count |-> 0]

increment(s) == [s EXCEPT !.count = s.count + 1]

\* Variant: the service is provided once for the whole application.
ProvideCounterService_Singleton(svcs) == 1

\* providers: [CounterService] on the component: the injector of each
\* CounterComponent instance creates a service instance of its own.
ProvideCounterService(svcs) == Len(svcs) + 1

\* ---- host runtime: what it calls next on an instance ----
NoChanges == <<>>

\* The SimpleChanges object handed to ngOnChanges: one entry, for name.
SimpleChange(prev, cur) ==
  <<[previousValue |-> IF prev = NoChange THEN Undefined ELSE prev,
     currentValue  |-> cur,
     firstChange   |-> prev = NoChange]>>

\* Variant: the binding writes the input in every cycle.
BindingChanged_Always(prev, cur) == TRUE

\* The binding writes the input when the bound value differs from the one
\* written last; the first value bound always counts as a change.
BindingChanged(prev, cur) == prev # cur

\* Variant: ngOnInit is run before the pending ngOnChanges.
AfterBinding_InitFirst(pending, phase) ==
  IF phase = 0 THEN "ngOnInit"
  ELSE IF pending THEN "ngOnChanges" ELSE "ngDoCheck"

AfterBinding(pending, phase) ==
  IF pending THEN "ngOnChanges"
  ELSE IF phase = 0 THEN "ngOnInit" ELSE "ngDoCheck"

\* Variant: ngOnInit follows every ngOnChanges.
AfterOnChanges_AlwaysInit(phase) == "ngOnInit"

AfterOnChanges(phase) == IF phase = 0 THEN "ngOnInit" ELSE "ngDoCheck"

AfterOnInit == "ngDoCheck"

\* Variant: the content check is run in the first cycle only.
AfterDoCheck_SkipContent(phase) ==
  IF phase = 1 THEN "ngAfterContentInit" ELSE "ngAfterViewChecked"

AfterDoCheck(phase) ==
  IF phase = 1 THEN "ngAfterContentInit" ELSE "ngAfterContentChecked"

AfterContentInit == "ngAfterContentChecked"

\* Variant: ngAfterViewInit is never run.
AfterContentChecked_NoViewInit(phase) == "ngAfterViewChecked"

AfterContentChecked(phase) ==
  IF phase = 2 THEN "ngAfterViewInit" ELSE "ngAfterViewChecked"

AfterViewInit == "ngAfterViewChecked"

AfterViewChecked == "idle"

ChangesAfterOnChanges == NoChanges

\* Variant: the instance is kept after ngOnDestroy.
StatusAfterDestroy_Live == "live"

StatusAfterDestroy == "destroyed"

\* The runtime is single-threaded and runs the hooks of one element in
\* groups: binding update to ngDoCheck, the content hooks, the view hooks.
\* Hooks of other instances run between the groups, never inside one.
GroupEnd(h) == h \in {"ngDoCheck", "ngAfterContentChecked", "ngAfterViewChecked"}

TraceLimit == IF root = "AppComponent" THEN MaxDemoTrace ELSE MaxTrace

Event(i, e) ==
  [inst |-> i, ev |-> e, cycle |-> cycleNo[i], name |-> comp[i].name,
   bound |-> expr[i], live |-> status[i] = "live"]

Live(i) == status[i] = "live"

\* ---- initial state: nothing bootstrapped yet ----
Init ==
  /\ root \in Roots
  /\ app = [title |-> AppTitle]
  /\ comp = [i \in Instances |-> NewHello]
  /\ status = [i \in Instances |-> "none"]
  /\ pc = [i \in Instances |-> "idle"]
  /\ expr = [i \in Instances |-> NoChange]
  /\ lastBound = [i \in Instances |-> NoChange]
  /\ changes = [i \in Instances |-> NoChanges]
  /\ initPhase = [i \in Instances |-> 0]
  /\ cycleNo = [i \in Instances |-> 0]
  /\ running = 0
  /\ console = <<>>
  /\ trace = <<>>
  /\ services = <<>>
  /\ counter = [c \in Counters |-> 0]
  /\ clicks = [c \in Counters |-> 0]

\* ---- host runtime actions on HelloComponent ----

\* The parent's template instantiates <app-hello>: the constructor runs the
\* field initialiser name = ''.  AppComponent's template holds one app-hello
\* bound to the constant 'Angular'.
CreateHello(i, v) ==
  /\ root \in {"AppComponent", "Harness"}
  /\ status[i] = "none"
  /\ \A j \in Instances : j < i => status[j] # "none"
  /\ root = "AppComponent" => (i <= AppTemplateChildren /\ v = AppTemplateName)
  /\ root = "Harness" => v \in BoundValues
  /\ comp' = [comp EXCEPT ![i] = NewHello]
  /\ status' = [status EXCEPT ![i] = "live"]
  /\ expr' = [expr EXCEPT ![i] = v]
  /\ running = 0
  /\ UNCHANGED <<root, app, pc, lastBound, changes, initPhase, cycleNo,
                 running, console, trace, counterVars>>

\* A harness parent changes the expression it binds to [name].
ParentChange(i, v) ==
  /\ root = "Harness"
  /\ Live(i)
  /\ pc[i] = "idle"
  /\ v # expr[i]
  /\ expr' = [expr EXCEPT ![i] = v]
  /\ running = 0
  /\ UNCHANGED <<root, app, comp, status, pc, lastBound, changes, initPhase,
                 cycleNo, running, console, trace, counterVars>>

\* A change detection cycle reaches the instance: the parent's binding is
\* evaluated and, when the bound value changed, written to the input.
UpdateBinding(i) ==
  /\ Live(i)
  /\ pc[i] = "idle"
  /\ running = 0
  /\ Len(trace) < TraceLimit
  /\ running' = i
  /\ cycleNo' = [cycleNo EXCEPT ![i] = @ + 1]
  /\ IF BindingChanged(lastBound[i], expr[i])
       THEN /\ comp' = [comp EXCEPT ![i].name = expr[i]]
            /\ lastBound' = [lastBound EXCEPT ![i] = expr[i]]
            /\ changes' = [changes EXCEPT ![i] = SimpleChange(lastBound[i], expr[i])]
            /\ trace' = Append(trace, [Event(i, "input") EXCEPT
                                         !.cycle = cycleNo[i] + 1])
       ELSE UNCHANGED <<comp, lastBound, changes, trace>>
  /\ pc' = [pc EXCEPT ![i] = AfterBinding(changes'[i] # NoChanges, initPhase[i])]
  /\ UNCHANGED <<root, app, status, expr, initPhase, console, counterVars>>

\* The runtime calls hook h of instance i; r is what the hook's body returns.
Invoke(i, h, r, next) ==
  /\ Live(i)
  /\ pc[i] = h
  /\ running \in {0, i}
  /\ Len(trace) < TraceLimit
  /\ running' = IF GroupEnd(h) THEN 0 ELSE i
  /\ comp' = [comp EXCEPT ![i] = r.self]
  /\ console' = r.console
  /\ trace' = Append(trace, Event(i, h))
  /\ pc' = [pc EXCEPT ![i] = next]
  /\ UNCHANGED <<root, app, expr, lastBound, cycleNo, counterVars>>

CallOnChanges(i) ==
  /\ changes[i] # NoChanges
  /\ Invoke(i, "ngOnChanges", ngOnChanges(comp[i], console, changes[i]),
            AfterOnChanges(initPhase[i]))
  /\ changes' = [changes EXCEPT ![i] = ChangesAfterOnChanges]
  /\ UNCHANGED <<status, initPhase>>

CallOnInit(i) ==
  /\ Invoke(i, "ngOnInit", ngOnInit(comp[i], console), AfterOnInit)
  /\ initPhase' = [initPhase EXCEPT ![i] = 1]
  /\ UNCHANGED <<status, changes>>

CallDoCheck(i) ==
  /\ Invoke(i, "ngDoCheck", ngDoCheck(comp[i], console),
            AfterDoCheck(initPhase[i]))
  /\ UNCHANGED <<status, changes, initPhase>>

CallAfterContentInit(i) ==
  /\ Invoke(i, "ngAfterContentInit", ngAfterContentInit(comp[i], console),
            AfterContentInit)
  /\ initPhase' = [initPhase EXCEPT ![i] = 2]
  /\ UNCHANGED <<status, changes>>

CallAfterContentChecked(i) ==
  /\ Invoke(i, "ngAfterContentChecked", ngAfterContentChecked(comp[i], console),
            AfterContentChecked(initPhase[i]))
  /\ UNCHANGED <<status, changes, initPhase>>

CallAfterViewInit(i) ==
  /\ Invoke(i, "ngAfterViewInit", ngAfterViewInit(comp[i], console),
            AfterViewInit)
  /\ initPhase' = [initPhase EXCEPT ![i] = 3]
  /\ UNCHANGED <<status, changes>>

CallAfterViewChecked(i) ==
  /\ Invoke(i, "ngAfterViewChecked", ngAfterViewChecked(comp[i], console),
            AfterViewChecked)
  /\ UNCHANGED <<status, changes, initPhase>>

\* The instance is removed: ngOnDestroy runs and the instance is gone.
Destroy(i) ==
  /\ Live(i)
  /\ pc[i] = "idle"
  /\ running = 0
  /\ Len(trace) < TraceLimit
  /\ LET r == ngOnDestroy(comp[i], console) IN
       /\ comp' = [comp EXCEPT ![i] = r.self]
       /\ console' = r.console
  /\ trace' = Append(trace, Event(i, "ngOnDestroy"))
  /\ status' = [status EXCEPT ![i] = StatusAfterDestroy]
  /\ UNCHANGED <<root, app, pc, expr, lastBound, changes, initPhase, cycleNo,
                 running, counterVars>>

\* ---- CounterComponent actions ----
CreateCounter(c) ==
  /\ root = "CounterApp"
  /\ counter[c] = 0
  /\ \A d \in Counters : d < c => counter[d] # 0
  /\ LET s == ProvideCounterService(services) IN
       /\ counter' = [counter EXCEPT ![c] = s]
       /\ services' = IF s > Len(services)
                        THEN Append(services, NewCounterService)
                        ELSE services
  /\ UNCHANGED <<root, app, helloVars, clicks>>

\* (click)="counter.increment()"
ClickIncrement(c) ==
  /\ counter[c] # 0
  /\ clicks[c] < MaxCount
  /\ services' = [services EXCEPT ![counter[c]] = increment(@)]
  /\ clicks' = [clicks EXCEPT ![c] = @ + 1]
  /\ UNCHANGED <<root, app, helloVars, counter>>

Next ==
  \/ \E i \in Instances, v \in BoundValues \cup {AppTemplateName} :
       CreateHello(i, v)
  \/ \E i \in Instances, v \in BoundValues : ParentChange(i, v)
  \/ \E i \in Instances : UpdateBinding(i)
  \/ \E i \in Instances : CallOnChanges(i)
  \/ \E i \in Instances : CallOnInit(i)
  \/ \E i \in Instances : CallDoCheck(i)
  \/ \E i \in Instances : CallAfterContentInit(i)
  \/ \E i \in Instances : CallAfterContentChecked(i)
  \/ \E i \in Instances : CallAfterViewInit(i)
  \/ \E i \in Instances : CallAfterViewChecked(i)
  \/ \E i \in Instances : Destroy(i)
  \/ \E c \in Counters : CreateCounter(c)
  \/ \E c \in Counters : ClickIncrement(c)

Spec == Init /\ [][Next]_vars

\* ---- reading the history ----
Calls == SelectSeq(trace, LAMBDA e : e.ev \in Hooks)

Count(i, h) ==
  Cardinality({k \in DOMAIN trace : trace[k].inst = i /\ trace[k].ev = h})

\* The events of instance i in its cycle c that belong to set H, in order.
InCycle(i, c, H) ==
  LET sel == SelectSeq(trace, LAMBDA e : e.inst = i /\ e.cycle = c /\ e.ev \in H)
  IN [k \in DOMAIN sel |-> sel[k].ev]

PrefixOf(s, t) ==
  /\ Len(s) <= Len(t)
  /\ \A k \in DOMAIN s : s[k] = t[k]

CycleDone(i, c) == c < cycleNo[i] \/ (c = cycleNo[i] /\ pc[i] = "idle")

FirstCycleOrder ==
  <<"ngOnChanges", "ngOnInit", "ngDoCheck", "ngAfterContentInit",
    "ngAfterContentChecked", "ngAfterViewInit", "ngAfterViewChecked">>

CheckOrder == <<"ngDoCheck", "ngAfterContentChecked", "ngAfterViewChecked">>

\* C1: for every instance, ngOnInit is never invoked before the instance's
\* first ngOnChanges.
C1_OnChangesBeforeOnInit ==
  \A k \in DOMAIN trace :
    trace[k].ev = "ngOnInit" =>
      \E j \in 1..(k - 1) :
        trace[j].inst = trace[k].inst /\ trace[j].ev = "ngOnChanges"

C1_Witness ==
  /\ root = "Harness"
  /\ \E k \in DOMAIN trace : trace[k].ev = "ngOnInit" /\ trace[k].inst = 2

\* C2: ngOnInit is invoked at most once per instance and exactly once as soon
\* as the first cycle has reached ngDoCheck, whatever cycles and input
\* changes follow; when it is invoked the instance exists and name holds the
\* value bound by the parent ('Angular' under AppComponent, not '').
C2_OnInitOnceInputsSet ==
  /\ \A i \in Instances :
       /\ Count(i, "ngOnInit") <= 1
       /\ Count(i, "ngDoCheck") >= 1 => Count(i, "ngOnInit") = 1
  /\ \A k \in DOMAIN trace :
       trace[k].ev = "ngOnInit" =>
         /\ trace[k].live
         /\ trace[k].name = trace[k].bound
         /\ root = "AppComponent" =>
              (trace[k].name = "Angular" /\ trace[k].name # NewHello.name)

C2_Witness ==
  \E i \in Instances :
    /\ Count(i, "ngOnInit") = 1
    /\ cycleNo[i] >= 2
    /\ pc[i] = "idle"
    /\ \E k \in DOMAIN trace :
         trace[k].inst = i /\ trace[k].ev = "input" /\ trace[k].cycle >= 2

\* C3: ngOnDestroy is invoked at most once per instance, on an instance that
\* still exists and is removed by that step, and nothing is invoked on the
\* instance afterwards.
C3_OnDestroyLast ==
  /\ \A i \in Instances :
       /\ Count(i, "ngOnDestroy") <= 1
       /\ status[i] = "destroyed" <=> Count(i, "ngOnDestroy") = 1
  /\ \A k \in DOMAIN trace :
       trace[k].ev = "ngOnDestroy" =>
         /\ trace[k].live
         /\ \A j \in (k + 1)..Len(trace) : trace[j].inst # trace[k].inst

C3_Witness ==
  \E k \in DOMAIN trace :
    /\ trace[k].ev = "ngOnDestroy"
    /\ trace[k].cycle >= 1
    /\ \E j \in (k + 1)..Len(trace) : trace[j].ev \in Hooks

\* C4: in every cycle of an instance ngDoCheck, ngAfterContentChecked and
\* ngAfterViewChecked run once each, in that order: the check hooks of a
\* finished cycle are exactly these three, and those of the cycle in
\* progress are a prefix of them.
C4_CheckHooksEveryCycle ==
  \A i \in Instances : \A c \in 1..cycleNo[i] :
    LET s == InCycle(i, c, {"ngDoCheck", "ngAfterContentChecked",
                            "ngAfterViewChecked"})
    IN /\ PrefixOf(s, CheckOrder)
       /\ CycleDone(i, c) => s = CheckOrder

C4_Witness ==
  \E i \in Instances :
    /\ cycleNo[i] >= 3
    /\ pc[i] = "idle"
    /\ Count(i, "ngAfterViewChecked") >= 3

\* C5: ngAfterContentInit and ngAfterViewInit run once per instance, and the
\* hooks of the first cycle are ngOnChanges, ngOnInit, ngDoCheck,
\* ngAfterContentInit, ngAfterContentChecked, ngAfterViewInit,
\* ngAfterViewChecked, in this order.
C5_FirstCycleOrder ==
  \A i \in Instances :
    /\ Count(i, "ngAfterContentInit") <= 1
    /\ Count(i, "ngAfterViewInit") <= 1
    /\ cycleNo[i] >= 1 =>
         LET s == InCycle(i, 1, Hooks \ {"ngOnDestroy"})
         IN /\ PrefixOf(s, FirstCycleOrder)
            /\ CycleDone(i, 1) => s = FirstCycleOrder

C5_Witness ==
  \E i \in Instances :
    /\ CycleDone(i, 1)
    /\ CycleDone(i, 2)
    /\ Count(i, "ngAfterViewInit") = 1

CountOf(c) == services[counter[c]].count

C7_Step ==
  /\ \A c \in Counters : counter'[c] # 0 => CountOf(c)' = clicks'[c]
  /\ \A c \in Counters :
       (counter[c] # 0 /\ clicks'[c] # clicks[c]) =>
         \A d \in Counters \ {c} : counter[d] # 0 => CountOf(d)' = CountOf(d)

C7_IsolatedCounters == [][C7_Step]_vars

C7_Witness ==
  \E c, d \in Counters :
    /\ counter[c] # 0 /\ counter[d] # 0
    /\ clicks[c] = 2 /\ clicks[d] = 1
    /\ CountOf(c) = 2 /\ CountOf(d) = 1

\* C8: the console holds one line per hook invocation, in the order of the
\* invocations, and two lines carry the same message exactly when they come
\* from the same hook.
C8_OneLinePerHook ==
  /\ Len(console) = Len(Calls)
  /\ \A k, l \in DOMAIN console :
       (console[k][1] = console[l][1]) <=> (Calls[k].ev = Calls[l].ev)

C8_Witness ==
  /\ \A h \in Hooks : \E k \in DOMAIN trace : trace[k].ev = h
  /\ Len(console) >= 11

\* C9: a hook invocation leaves every name, AppComponent.title and the bound
\* values unchanged, and name changes only in a step in which the binding
\* writes it.
HookStep ==
  /\ Len(trace') = Len(trace) + 1
  /\ trace'[Len(trace')].ev \in Hooks

InputStep(i) ==
  /\ Len(trace') = Len(trace) + 1
  /\ trace'[Len(trace')].ev = "input"
  /\ trace'[Len(trace')].inst = i

C9_Frame ==
  /\ HookStep => (comp' = comp /\ app' = app /\ expr' = expr
                  /\ lastBound' = lastBound)
  /\ \A i \in Instances : comp'[i].name # comp[i].name => InputStep(i)
  /\ app' = app

C9_HooksChangeNothing == [][C9_Frame]_vars

C9_Witness ==
  \E i \in Instances :
    /\ status[i] = "destroyed"
    /\ cycleNo[i] >= 2
    /\ comp[i].name = "Angular"
    /\ app.title = "lifecycle-hooks-demo"

\* C10: under AppComponent there is never more than one HelloComponent,
\* ngOnChanges is invoked on it once (before the first ngOnInit and
\* ngDoCheck, never again), and name is 'Angular' from then on.
C10_DemoOnChangesOnce ==
  root = "AppComponent" =>
    /\ \A i \in Instances : i > 1 => status[i] = "none"
    /\ Count(1, "ngOnChanges") <= 1
    /\ (Count(1, "ngOnInit") >= 1 \/ Count(1, "ngDoCheck") >= 1)
         => Count(1, "ngOnChanges") = 1
    /\ Count(1, "ngOnChanges") = 1 => comp[1].name = "Angular"

C10_Witness ==
  /\ root = "AppComponent"
  /\ cycleNo[1] >= 20
  /\ Count(1, "ngOnChanges") = 1
  /\ Count(1, "ngDoCheck") >= 20

====
